---- MODULE Spec2Model ----
(***************************************************************************)
(* Two-party bingo sessions: the Game document (backend/models/Game.js),   *)
(* the REST game routes (create, join, call-number, decline, cancel) and   *)
(* the realtime handlers on the same documents (respond-to-invitation,     *)
(* call-number).  Every handler is one action: it reads the document,      *)
(* runs its checks, mutates the copy and saves it.                         *)
(*                                                                         *)
(* Time is counted in units of the invitation window (24 hours).           *)
(***************************************************************************)
EXTENDS Integers, Sequences, FiniteSets, TLC

VARIABLES games, now, last, inflight, rooms, sockets, connectedUsers, emitted

vars == <<games, now, last, inflight, rooms, sockets, connectedUsers, emitted>>

\* A step that touches no connection and emits no event: emitted holds the
\* events of the latest step.
Silent == UNCHANGED <<sockets, connectedUsers>> /\ emitted' = {}

(***************************************************************************)
(* Bounds of the model                                                     *)
(***************************************************************************)
\* The clock stops after MaxTime units.
MaxTime == 2

\* Out-of-range numbers are submitted among the first EarlyCalls calls only.
EarlyCalls == 2

\* Calls a session takes in the specifications of several sessions.
MaxStoreCalls == 2

\* Requests in flight at once.
MaxInflight == 2

\* Identities.  u3 never takes part in a session of Spec: it is the outsider.
Users == {"u1", "u2", "u3"}
Ghost == "ghost"          \* an id that resolves to no user
NoUser == "nobody"        \* an unset user reference / a missing opponentId

\* Session ids of the store, and the ones Spec creates.
GameIds == {"g1", "g2"}
PlayGameIds == {"g1"}
NoGame == [status |-> "absent"]

\* Handlers that can be suspended at their save at the same time, in the
\* specification of interleaved handlers.
Handlers == 1..MaxInflight
Idle == [op |-> "idle"]

\* Unset values of Date and Number fields.
NoTime == -1
NoNumber == -2
FREE == -3

(***************************************************************************)
(* Program constants                                                       *)
(***************************************************************************)
InvitationWindow == 1      \* 24 h, the unit of the clock
MinutesPerUnit == 1440     \* minutes in one unit of the clock
DefaultRequiredLines == 5
MinNumber == 1
MaxNumber == 25

\* A number need not be an integer (typeof number === 'number' holds of
\* 1.5): the non-integer k + 1/2 is written Half(k), a value above every
\* integer in use, so that two numbers are equal exactly when they are
\* written the same.
HalfBase == 1000
Half(k) == HalfBase + k
isHalf(number) == number >= HalfBase

\* number < bound and number > bound, for an integer bound.
below(number, bound) ==
    IF isHalf(number) THEN number - HalfBase < bound ELSE number < bound
above(number, bound) ==
    IF isHalf(number) THEN number - HalfBase >= bound ELSE number > bound
FreeNumber == 13
WinLines == 5

(***************************************************************************)
(* Boards                                                                  *)
(***************************************************************************)
\* generateBingoBoard with the shuffle given as a permutation of 1..24:
\* allNumbers is 1..25 without 13, shuffled, and laid out row by row around
\* the FREE center.
AllNumbers == [k \in 1..24 |-> IF k < FreeNumber THEN k ELSE k + 1]

\* A generator that fills two cells from the same position of the shuffle.
generateBingoBoardRepeating(perm) ==
    [i \in 1..5 |->
        [j \in 1..5 |->
            LET cell == (i - 1) * 5 + j
            IN  IF i = 3 /\ j = 3 THEN FREE
                ELSE AllNumbers[perm[IF cell < 13 THEN 1 ELSE cell - 1]]]]

generateBingoBoard(perm) ==
    [i \in 1..5 |->
        [j \in 1..5 |->
            LET cell == (i - 1) * 5 + j
            IN  IF i = 3 /\ j = 3 THEN FREE
                ELSE AllNumbers[perm[IF cell < 13 THEN cell ELSE cell - 1]]]]

IdentityShuffle == [k \in 1..24 |-> k]
Shuffles == {IdentityShuffle}

\* The numbers the clients of the model call, in this order: the two
\* diagonals, the center row and the center column, then the rest of the
\* first row, then one number more.  After the 18th the row-major board has
\* five lines.
CallOrder == <<7, 1, 19, 25, 5, 9, 17, 21, 11, 12, 14, 15, 3, 8, 18, 23, 2, 4, 6>>
OutOfRange == {26}

(***************************************************************************)
(* Game.js: methods of the document                                        *)
(***************************************************************************)
includes(seq, x) == \E i \in DOMAIN seq : seq[i] = x

isExpired(game, t) ==
    game.status = "pending" /\ game.invitationExpiresAt < t

canJoin(game, userId, t) ==
    /\ game.status = "pending"
    /\ ~isExpired(game, t)
    /\ (game.creator = userId \/ game.opponent = userId)

\* isUserTurn that forgets the turn pointer: any participant may call.
isUserTurnAnyParticipant(game, userId) ==
    IF game.status # "active" THEN FALSE
    ELSE game.creator = userId \/ game.opponent = userId

isUserTurn(game, userId) ==
    IF game.status # "active" THEN FALSE
    ELSE LET isCreator == game.creator = userId
             isOpponent == game.opponent = userId
         IN  \/ isCreator /\ game.currentTurn = "creator"
             \/ isOpponent /\ game.currentTurn = "opponent"

\* callNumber without the includes() guard.
callNumberNoGuard(game, number, calledBy) ==
    [ok |-> TRUE,
     game |-> [game EXCEPT
                 !.calledNumbers = Append(@, number),
                 !.lastCalledNumber = number,
                 !.lastCalledBy = calledBy,
                 !.currentTurn = IF @ = "creator" THEN "opponent" ELSE "creator"]]

\* callNumber that forgets to switch turns.
callNumberNoFlip(game, number, calledBy) ==
    IF ~includes(game.calledNumbers, number)
    THEN [ok |-> TRUE,
          game |-> [game EXCEPT
                      !.calledNumbers = Append(@, number),
                      !.lastCalledNumber = number,
                      !.lastCalledBy = calledBy]]
    ELSE [ok |-> FALSE, game |-> game]

\* callNumber returns whether the number was recorded, and the document after.
callNumber(game, number, calledBy) ==
    IF ~includes(game.calledNumbers, number)
    THEN [ok |-> TRUE,
          game |-> [game EXCEPT
                      !.calledNumbers = Append(@, number),
                      !.lastCalledNumber = number,
                      !.lastCalledBy = calledBy,
                      !.currentTurn = IF @ = "creator" THEN "opponent" ELSE "creator"]]
    ELSE [ok |-> FALSE, game |-> game]

marked(cell, calledNumbers) == cell = FREE \/ includes(calledNumbers, cell)

completedLines(board, calledNumbers) ==
    LET rows == Cardinality({i \in 1..5 : \A j \in 1..5 : marked(board[i][j], calledNumbers)})
        cols == Cardinality({j \in 1..5 : \A i \in 1..5 : marked(board[i][j], calledNumbers)})
        diag == IF \A i \in 1..5 : marked(board[i][i], calledNumbers) THEN 1 ELSE 0
        anti == IF \A i \in 1..5 : marked(board[i][6 - i], calledNumbers) THEN 1 ELSE 0
    IN  rows + cols + diag + anti

checkWinCondition(game, board, calledNumbers) ==
    completedLines(board, calledNumbers) >= game.requiredLines

endGame(game, winnerId, t) ==
    [game EXCEPT
        !.status = "completed",
        !.winner = winnerId,
        !.completedAt = t,
        !.duration = IF game.startedAt # NoTime
                     THEN (t - game.startedAt) * MinutesPerUnit ELSE @]

\* pre('save'): an expired pending document is saved as cancelled.
preSave(game, t) ==
    IF isExpired(game, t) /\ game.status = "pending"
    THEN [game EXCEPT !.status = "cancelled"] ELSE game

(***************************************************************************)
(* The store                                                               *)
(***************************************************************************)
Existing == {g \in GameIds : games[g] # NoGame}

NonTerminal(game) == game.status \in {"pending", "active"}

\* The unique partial index on (creator, opponent, status) over the
\* pending and active documents.
indexAllows(g, doc) ==
    ~ NonTerminal(doc) \/
    \A h \in Existing \ {g} :
        ~ (/\ games[h].creator = doc.creator
           /\ games[h].opponent = doc.opponent
           /\ games[h].status = doc.status)

\* save(): the hook runs, then the document is written unless the index
\* refuses it (the handler's catch then answers with its failure message).
saved(g, doc) == preSave(doc, now)
saveOk(g, doc) == indexAllows(g, saved(g, doc))

Reply(op, actor, g, arg, res) ==
    [op |-> op, actor |-> actor, game |-> g, arg |-> arg, res |-> res]

\* A handler's outcome: the document written (or none) and the reply.
Reject(op, actor, g, arg, res) ==
    /\ games' = games
    /\ last' = Reply(op, actor, g, arg, res)
    /\ inflight' = inflight
    /\ rooms' = rooms
    /\ Silent

Save(op, actor, g, arg, doc, failure) ==
    IF saveOk(g, doc)
    THEN /\ games' = [games EXCEPT ![g] = saved(g, doc)]
         /\ last' = Reply(op, actor, g, arg, "ok")
         /\ inflight' = inflight
         /\ rooms' = rooms
         /\ Silent
    ELSE Reject(op, actor, g, arg, failure)

(***************************************************************************)
(* REST routes                                                             *)
(***************************************************************************)
NewGame(creator, opponent, gameType, board) ==
    [creator |-> creator,
     opponent |-> opponent,
     status |-> "pending",
     winner |-> NoUser,
     gameType |-> gameType,
     creatorBoard |-> board,
     opponentBoard |-> board,
     calledNumbers |-> << >>,
     currentTurn |-> "creator",
     creatorCompletedLines |-> 0,
     opponentCompletedLines |-> 0,
     lastCalledNumber |-> NoNumber,
     lastCalledBy |-> NoUser,
     startedAt |-> NoTime,
     completedAt |-> NoTime,
     duration |-> NoTime,
     requiredLines |-> DefaultRequiredLines,
     invitationAccepted |-> FALSE,
     invitationExpiresAt |-> now + InvitationWindow]

\* POST / : create a session.
CreateGame(g, actor, opponentId, gameType, perm) ==
    /\ games[g] = NoGame
    /\ now' = now
    /\ LET op == "create"
           arg == opponentId
       IN
       IF gameType = "multiplayer" /\ opponentId = NoUser
       THEN Reject(op, actor, g, arg, "Opponent ID is required for multiplayer games")
       ELSE IF opponentId # NoUser /\ opponentId \notin Users
       THEN Reject(op, actor, g, arg, "Opponent not found")
       ELSE IF /\ opponentId # NoUser
               /\ \E h \in Existing :
                     /\ \/ games[h].creator = actor /\ games[h].opponent = opponentId
                        \/ games[h].creator = opponentId /\ games[h].opponent = actor
                     /\ games[h].status \in {"pending", "active"}
       THEN Reject(op, actor, g, arg, "There is already an active game with this opponent")
       ELSE Save(op, actor, g, arg,
                 NewGame(actor, IF opponentId # NoUser THEN opponentId ELSE actor,
                         gameType, generateBingoBoard(perm)),
                 "Internal server error")

\* POST /:gameId/join : accept the invitation.
JoinGame(g, actor) ==
    /\ now' = now
    /\ LET op == "join"
           game == games[g]
       IN
       IF game = NoGame
       THEN Reject(op, actor, g, TRUE, "Game not found")
       ELSE IF ~canJoin(game, actor, now)
       THEN Reject(op, actor, g, TRUE, "Cannot join this game")
       ELSE Save(op, actor, g, TRUE,
                 [game EXCEPT !.status = "active",
                              !.invitationAccepted = TRUE,
                              !.startedAt = now],
                 "Internal server error")

\* POST /:gameId/call-number : call a number, then evaluate both boards.
CallNumber(g, actor, number) ==
    /\ now' = now
    /\ LET op == "call-number"
           game == games[g]
       IN
       IF game = NoGame
       THEN Reject(op, actor, g, number, "Game not found")
       ELSE IF game.status # "active"
       THEN Reject(op, actor, g, number, "Game is not active")
       ELSE IF ~isUserTurn(game, actor)
       THEN Reject(op, actor, g, number, "It is not your turn")
       ELSE IF below(number, MinNumber) \/ above(number, MaxNumber)
       THEN Reject(op, actor, g, number, "Invalid number. Must be between 1 and 25.")
       ELSE LET called == callNumber(game, number, actor)
            IN
            IF ~called.ok
            THEN Reject(op, actor, g, number, "Number has already been called")
            ELSE LET doc == called.game
                     creatorLines ==
                         IF checkWinCondition(doc, doc.creatorBoard, doc.calledNumbers)
                         THEN WinLines ELSE 0
                     opponentLines ==
                         IF checkWinCondition(doc, doc.opponentBoard, doc.calledNumbers)
                         THEN WinLines ELSE 0
                     counted == [doc EXCEPT !.creatorCompletedLines = creatorLines,
                                            !.opponentCompletedLines = opponentLines]
                     winner == IF creatorLines >= WinLines THEN doc.creator
                               ELSE IF opponentLines >= WinLines THEN doc.opponent
                               ELSE NoUser
                 IN  Save(op, actor, g, number,
                          IF winner # NoUser THEN endGame(counted, winner, now)
                          ELSE counted,
                          "Internal server error")

\* POST /:gameId/decline : the opponent declines a pending invitation.
DeclineGame(g, actor) ==
    /\ now' = now
    /\ LET op == "decline"
           game == games[g]
       IN
       IF game = NoGame
       THEN Reject(op, actor, g, FALSE, "Game not found")
       ELSE IF game.opponent # actor
       THEN Reject(op, actor, g, FALSE,
                   "You can only decline games where you are the opponent")
       ELSE IF game.status # "pending"
       THEN Reject(op, actor, g, FALSE, "Game is not pending")
       ELSE Save(op, actor, g, FALSE, [game EXCEPT !.status = "cancelled"],
                 "Internal server error")

\* cancel that writes the wrong terminal status.
CancelGameCompletes(g, actor) ==
    /\ now' = now
    /\ LET op == "cancel"
           game == games[g]
       IN
       IF game = NoGame
       THEN Reject(op, actor, g, FALSE, "Game not found")
       ELSE IF game.creator # actor
       THEN Reject(op, actor, g, FALSE, "Only the creator can cancel a game")
       ELSE IF game.status = "completed"
       THEN Reject(op, actor, g, FALSE, "Cannot cancel a completed game")
       ELSE Save(op, actor, g, FALSE, [game EXCEPT !.status = "completed"],
                 "Internal server error")

\* cancel open to the opponent too.
CancelGameAnyParticipant(g, actor) ==
    /\ now' = now
    /\ LET op == "cancel"
           game == games[g]
       IN
       IF game = NoGame
       THEN Reject(op, actor, g, FALSE, "Game not found")
       ELSE IF game.creator # actor /\ game.opponent # actor
       THEN Reject(op, actor, g, FALSE, "Only the creator can cancel a game")
       ELSE IF game.status = "completed"
       THEN Reject(op, actor, g, FALSE, "Cannot cancel a completed game")
       ELSE Save(op, actor, g, FALSE, [game EXCEPT !.status = "cancelled"],
                 "Internal server error")

\* POST /:gameId/cancel : the creator cancels.
CancelGame(g, actor) ==
    /\ now' = now
    /\ LET op == "cancel"
           game == games[g]
       IN
       IF game = NoGame
       THEN Reject(op, actor, g, FALSE, "Game not found")
       ELSE IF game.creator # actor
       THEN Reject(op, actor, g, FALSE, "Only the creator can cancel a game")
       ELSE IF game.status = "completed"
       THEN Reject(op, actor, g, FALSE, "Cannot cancel a completed game")
       ELSE Save(op, actor, g, FALSE, [game EXCEPT !.status = "cancelled"],
                 "Internal server error")

(***************************************************************************)
(* Realtime handlers (the socket's userId is the actor)                    *)
(***************************************************************************)
\* socket.on('respond-to-invitation')
RespondToInvitation(g, actor, accepted) ==
    /\ now' = now
    /\ LET op == "respond-to-invitation"
           game == games[g]
       IN
       IF game = NoGame
       THEN Reject(op, actor, g, accepted, "Game not found")
       ELSE IF game.opponent # actor
       THEN Reject(op, actor, g, accepted, "Not authorized")
       ELSE IF accepted
       THEN Save(op, actor, g, accepted,
                 [game EXCEPT !.status = "active",
                              !.invitationAccepted = TRUE,
                              !.startedAt = now],
                 "Failed to respond to invitation")
       ELSE Save(op, actor, g, accepted, [game EXCEPT !.status = "cancelled"],
                 "Failed to respond to invitation")

\* socket.on('call-number')
SocketCallNumber(g, actor, number) ==
    /\ now' = now
    /\ LET op == "socket-call-number"
           game == games[g]
       IN
       IF game = NoGame
       THEN Reject(op, actor, g, number, "Game not found")
       ELSE IF game.status # "active"
       THEN Reject(op, actor, g, number, "Game is not active")
       ELSE IF ~isUserTurn(game, actor)
       THEN Reject(op, actor, g, number, "It is not your turn")
       ELSE LET called == callNumber(game, number, actor)
            IN
            IF ~called.ok
            THEN Reject(op, actor, g, number, "Number has already been called")
            ELSE Save(op, actor, g, number, called.game, "Failed to call number")

(***************************************************************************)
(* The requests the clients of the model send                              *)
(***************************************************************************)
CreateRequests ==
    { [actor |-> "u1", opponentId |-> "u2",   gameType |-> "multiplayer"],
      [actor |-> "u1", opponentId |-> NoUser, gameType |-> "solo"],
      [actor |-> "u1", opponentId |-> NoUser, gameType |-> "multiplayer"],
      [actor |-> "u2", opponentId |-> Ghost,  gameType |-> "multiplayer"] }

\* The first number of CallOrder not yet in the history.
Fresh(history) ==
    LET open == {k \in DOMAIN CallOrder : ~includes(history, CallOrder[k])}
    IN  IF open = {} THEN {}
        ELSE {CallOrder[CHOOSE k \in open : \A m \in open : k <= m]}

\* What a client submits to a session: the next fresh number, a repeat of
\* the last number called, or (among the first EarlyCalls calls) a number out
\* of range.
CallInputs(g) ==
    IF games[g] = NoGame THEN {CallOrder[1]}
    ELSE LET history == games[g].calledNumbers
         IN  Fresh(history) \cup
             (IF Len(history) < EarlyCalls THEN OutOfRange ELSE {}) \cup
             (IF history = << >> THEN {} ELSE {history[Len(history)]})

(***************************************************************************)
(* Connections                                                             *)
(***************************************************************************)
SocketIds == {"s1", "s2", "s3"}
NoSocket == "none"
NoGameId == "null"

\* A connection before its handshake.
NewSocket == [state |-> "new", user |-> NoUser, rooms |-> {}, currentGameId |-> NoGameId]

(***************************************************************************)
(* Room sessions of the room handlers (the documents found by roomCode)    *)
(***************************************************************************)
RoomCodes == {"R1"}
UnknownRoom == "R9"
NoRoom == [status |-> "absent"]

WinPatterns == {"line", "full", "corners", "diagonal"}

\* A room once started: its host u1 and the player u2, nothing called yet.
StartedRoom ==
    [status |-> "active",
     players |-> {[user |-> "u1", isHost |-> TRUE, isReady |-> TRUE],
                  [user |-> "u2", isHost |-> FALSE, isReady |-> TRUE]},
     calledNumbers |-> << >>,
     gameSettings |-> [winPattern |-> "line"],
     bingoBoard |-> generateBingoBoard(IdentityShuffle),
     winner |-> NoUser,
     completedAt |-> NoTime]

\* The room before its start: nobody is ready yet.
WaitingRoom ==
    [StartedRoom EXCEPT
        !.status = "waiting",
        !.players = {[user |-> "u1", isHost |-> TRUE, isReady |-> FALSE],
                     [user |-> "u2", isHost |-> FALSE, isReady |-> FALSE]}]

Init ==
    /\ games = [g \in GameIds |-> NoGame]
    /\ now = 0
    /\ last = Reply("none", NoUser, "g1", NoUser, "ok")
    /\ inflight = [h \in Handlers |-> Idle]
    /\ rooms = [c \in RoomCodes |-> StartedRoom]
    /\ sockets = [s \in SocketIds |-> NewSocket]
    /\ connectedUsers = [u \in Users |-> NoSocket]
    /\ emitted = {}

Tick ==
    /\ now < MaxTime
    /\ now' = now + 1
    /\ UNCHANGED <<games, last, inflight, rooms>>
    /\ Silent

Next ==
    \/ Tick
    \/ \E g \in PlayGameIds, r \in CreateRequests, p \in Shuffles :
          CreateGame(g, r.actor, r.opponentId, r.gameType, p)
    \/ \E g \in PlayGameIds, a \in Users : JoinGame(g, a)
    \/ \E g \in PlayGameIds, a \in Users : \E n \in CallInputs(g) : CallNumber(g, a, n)
    \/ \E g \in PlayGameIds, a \in Users : DeclineGame(g, a)
    \/ \E g \in PlayGameIds, a \in Users : CancelGame(g, a)
    \/ \E g \in PlayGameIds, a \in Users, acc \in BOOLEAN : RespondToInvitation(g, a, acc)
    \/ \E g \in PlayGameIds, a \in Users : \E n \in CallInputs(g) : SocketCallNumber(g, a, n)

Spec == Init /\ [][Next]_vars

(***************************************************************************)
(* Vocabulary of the properties                                            *)
(***************************************************************************)
CallOps == {"call-number", "socket-call-number"}

\* The step is the handling of one request of kind op on session g.
Handled(ops, g) == now' = now /\ last'.op \in ops /\ last'.game = g

Accepted == last'.res = "ok"

NoRepeat(seq) == \A i, j \in DOMAIN seq : i # j => seq[i] # seq[j]

TwoPlayer(game) == game.creator # game.opponent

TurnHolder(game) ==
    IF game.currentTurn = "creator" THEN game.creator ELSE game.opponent

(***************************************************************************)
(* C1: no number occurs more than once in a session's called-number        *)
(* history, whatever call-number requests (REST or realtime, accepted or   *)
(* rejected, by any user) were handled.                                    *)
(***************************************************************************)
C1_NoNumberCalledTwice ==
    \A g \in Existing : NoRepeat(games[g].calledNumbers)

\* A repeat of a called number has just been refused, after two calls.
C1_Witness ==
    /\ last.op \in CallOps
    /\ last.res = "Number has already been called"
    /\ games[last.game] # NoGame
    /\ Len(games[last.game].calledNumbers) >= 2
    /\ includes(games[last.game].calledNumbers, last.arg)

(***************************************************************************)
(* C2: a call-number whose number is already in the history is rejected    *)
(* and changes nothing; the turn pointer changes only in a step that       *)
(* appends one number to the history; and on a fresh active session the    *)
(* creator's call of 7 gives history <<7>> with the opponent to move,      *)
(* after which the creator's second call of 7 is rejected with the         *)
(* history and the turn as they were.                                      *)
(***************************************************************************)
C2_RepeatStep(g) ==
    (/\ Handled(CallOps, g)
     /\ games[g] # NoGame
     /\ includes(games[g].calledNumbers, last'.arg))
    => (~Accepted /\ games' = games)

C2_TurnStep(g) ==
    (/\ games[g] # NoGame
     /\ games'[g].currentTurn # games[g].currentTurn)
    => (/\ Len(games'[g].calledNumbers) = Len(games[g].calledNumbers) + 1
        /\ SubSeq(games'[g].calledNumbers, 1, Len(games[g].calledNumbers))
             = games[g].calledNumbers)

C2_ScenarioStep(g) ==
    (/\ Handled(CallOps, g)
     /\ games[g] # NoGame
     /\ games[g].status = "active"
     /\ last'.actor = games[g].creator
     /\ last'.arg = 7)
    => (/\ (games[g].calledNumbers = << >> /\ games[g].currentTurn = "creator")
             => (/\ Accepted
                 /\ games'[g].calledNumbers = <<7>>
                 /\ games'[g].currentTurn = "opponent")
        /\ (games[g].calledNumbers = <<7>> /\ games[g].currentTurn = "opponent")
             => (/\ ~Accepted
                 /\ games'[g].calledNumbers = <<7>>
                 /\ games'[g].currentTurn = "opponent"
                 /\ games' = games))

C2_DuplicateCallChangesNothing ==
    [][\A g \in GameIds :
         C2_RepeatStep(g) /\ C2_TurnStep(g) /\ C2_ScenarioStep(g)]_vars

\* The creator's second call of 7 has just been refused.
C2_Witness ==
    /\ last.op \in CallOps
    /\ last.res # "ok"
    /\ last.arg = 7
    /\ games[last.game] # NoGame
    /\ last.actor = games[last.game].creator
    /\ games[last.game].status = "active"
    /\ games[last.game].calledNumbers = <<7>>
    /\ games[last.game].currentTurn = "opponent"
    /\ games[last.game].lastCalledBy = games[last.game].creator

(***************************************************************************)
(* C3: in an active session between two different users exactly one of     *)
(* them holds the turn and can have a call accepted; a call by the         *)
(* participant whose role does not match the turn pointer, or by a user    *)
(* who is neither creator nor opponent, is rejected and changes nothing.   *)
(***************************************************************************)
C3_OneTurnHolder ==
    \A g \in Existing :
        (games[g].status = "active" /\ TwoPlayer(games[g])) =>
            /\ {u \in Users : isUserTurn(games[g], u)} = {TurnHolder(games[g])}
            /\ TurnHolder(games[g]) \in {games[g].creator, games[g].opponent}
            /\ \E n \in 1..(Len(games[g].calledNumbers) + 1) :
                   callNumber(games[g], n, TurnHolder(games[g])).ok

C3_OffTurnStep(g) ==
    (/\ Handled(CallOps, g)
     /\ games[g] # NoGame
     /\ games[g].status = "active"
     /\ TwoPlayer(games[g])
     /\ last'.actor # TurnHolder(games[g]))
    => (~Accepted /\ games' = games)

C3_OnlyTurnHolderCalls ==
    /\ []C3_OneTurnHolder
    /\ [][\A g \in GameIds : C3_OffTurnStep(g)]_vars

\* After two accepted calls the opponent calls out of turn and is refused.
C3_Witness ==
    /\ last.op \in CallOps
    /\ last.res = "It is not your turn"
    /\ games[last.game] # NoGame
    /\ games[last.game].status = "active"
    /\ TwoPlayer(games[last.game])
    /\ last.actor = games[last.game].opponent
    /\ games[last.game].currentTurn = "creator"
    /\ Len(games[last.game].calledNumbers) = 2

(***************************************************************************)
(* Accept, decline and cancel steps                                        *)
(***************************************************************************)
\* REST join, or realtime respond-to-invitation with accepted = true.
AcceptStep(g) ==
    Handled({"join", "respond-to-invitation"}, g) /\ last'.arg = TRUE

\* REST decline, or realtime respond-to-invitation with accepted = false.
DeclineStep(g) ==
    Handled({"decline", "respond-to-invitation"}, g) /\ last'.arg = FALSE

Participant(game, u) == u = game.creator \/ u = game.opponent

(***************************************************************************)
(* C4: completed and cancelled are absorbing: no step changes the status   *)
(* of a session that is completed or cancelled.                            *)
(***************************************************************************)
C4_TerminalAbsorbing ==
    [][\A g \in GameIds :
         (games[g] # NoGame /\ games[g].status \in {"completed", "cancelled"})
         => games'[g].status = games[g].status]_vars

C6_AcceptOnlyFromPending ==
    [][\A g \in GameIds :
         (AcceptStep(g) /\ games[g] # NoGame) =>
            IF games[g].status = "pending" /\ Participant(games[g], last'.actor)
            THEN Accepted => (/\ games'[g].status = "active"
                              /\ games'[g].startedAt = now)
            ELSE games' = games]_vars

(***************************************************************************)
(* C7: no step moves to active a pending session whose invitation expiry   *)
(* time has passed.                                                        *)
(***************************************************************************)
C7_ExpiredNeverActivated ==
    [][\A g \in GameIds :
         (games[g] # NoGame /\ isExpired(games[g], now))
         => games'[g].status # "active"]_vars

(***************************************************************************)
(* C8: an accept attempt on a pending session whose invitation window has  *)
(* elapsed is rejected and leaves the session persisted as cancelled (so   *)
(* that every later accept finds it cancelled).                            *)
(***************************************************************************)
C8_ExpiredCancelledOnAccess ==
    [][\A g \in GameIds :
         (AcceptStep(g) /\ games[g] # NoGame /\ isExpired(games[g], now))
         => (~Accepted /\ games'[g].status = "cancelled")]_vars

(***************************************************************************)
(* C9: a decline (REST decline or realtime respond-to-invitation not       *)
(* accepted) changes a session only when it is pending and the actor is    *)
(* its opponent, and then only its status, to cancelled.                   *)
(***************************************************************************)
C9_DeclineOnlyPendingByOpponent ==
    [][\A g \in GameIds :
         (DeclineStep(g) /\ games[g] # NoGame) =>
            IF games[g].status = "pending" /\ last'.actor = games[g].opponent
            THEN Accepted =>
                    games' = [games EXCEPT ![g] = [@ EXCEPT !.status = "cancelled"]]
            ELSE games' = games]_vars

(***************************************************************************)
(* C10: a cancel succeeds exactly when the actor is the session's creator  *)
(* and the session is not completed, and then changes only the status, to  *)
(* cancelled; any other cancel is rejected and changes nothing.            *)
(***************************************************************************)
C10_CancelByCreatorUnlessCompleted ==
    [][\A g \in GameIds :
         (Handled({"cancel"}, g) /\ games[g] # NoGame) =>
            IF last'.actor = games[g].creator /\ games[g].status # "completed"
            THEN /\ Accepted
                 /\ games' = [games EXCEPT ![g] = [@ EXCEPT !.status = "cancelled"]]
            ELSE ~Accepted /\ games' = games]_vars

\* The creator's cancel of a completed session has just been refused.
C10_Witness ==
    /\ last.op = "cancel"
    /\ last.res = "Cannot cancel a completed game"
    /\ games[last.game] # NoGame
    /\ last.actor = games[last.game].creator
    /\ games[last.game].status = "completed"
    /\ games[last.game].winner # NoUser

(***************************************************************************)
(* C11: winner is set if and only if the session is completed: a pending,  *)
(* active or cancelled session has no winner and a completed one has one.  *)
(***************************************************************************)
C11_WinnerIffCompleted ==
    \A g \in Existing :
        (games[g].winner # NoUser) <=> (games[g].status = "completed")

(***************************************************************************)
(* C15: every number of a session's history lies in the valid range        *)
(* (1..25): a call with a number out of range is rejected on the REST and  *)
(* on the realtime path alike.                                             *)
(***************************************************************************)
InRange(n) == MinNumber <= n /\ n <= MaxNumber

C15_HistoryInRange ==
    \A g \in Existing :
        \A i \in DOMAIN games[g].calledNumbers : InRange(games[g].calledNumbers[i])

(***************************************************************************)
(* C17: an accepted call-number (REST or realtime) completes the session,  *)
(* with winner, completed timestamp and duration, in the same step exactly *)
(* when after the call some participant's board satisfies the win          *)
(* condition; so no active session has a winning board.                    *)
(***************************************************************************)
SomeBoardWins(game) ==
    \/ checkWinCondition(game, game.creatorBoard, game.calledNumbers)
    \/ checkWinCondition(game, game.opponentBoard, game.calledNumbers)

BothBoardsWin(game) ==
    /\ checkWinCondition(game, game.creatorBoard, game.calledNumbers)
    /\ checkWinCondition(game, game.opponentBoard, game.calledNumbers)

C17_WinEvaluatedOnEveryCall ==
    [][\A g \in GameIds :
         (Handled(CallOps, g) /\ Accepted /\ games[g] # NoGame) =>
            (SomeBoardWins(games'[g]) <=>
                (/\ games'[g].status = "completed"
                 /\ games'[g].winner # NoUser
                 /\ games'[g].completedAt = now
                 /\ games'[g].duration # NoTime))]_vars

(***************************************************************************)
(* C18: when an accepted call completes the session with both boards       *)
(* satisfying the win condition, the recorded winner is the caller.        *)
(***************************************************************************)
C18_CallerWinsTie ==
    [][\A g \in GameIds :
         (/\ Handled(CallOps, g) /\ Accepted /\ games[g] # NoGame
          /\ games'[g].status = "completed"
          /\ BothBoardsWin(games'[g]))
         => games'[g].winner = last'.actor]_vars

(***************************************************************************)
(* C16: the history and the turn pointer of a session change only while    *)
(* it is active: a call-number on a pending, completed or cancelled        *)
(* session is rejected and changes nothing, and once a session has been    *)
(* completed its history stays as it is.  (endGame sets completedAt and    *)
(* nothing clears it: completedAt is set exactly in the sessions that      *)
(* have reached completed.)                                                *)
(***************************************************************************)
C16_CallOffActive(g) ==
    (Handled(CallOps, g) /\ games[g].status # "active")
    => (~Accepted /\ games' = games)

C16_ChangeWhileActive(g) ==
    (\/ games'[g].calledNumbers # games[g].calledNumbers
     \/ games'[g].currentTurn # games[g].currentTurn)
    => games[g].status = "active"

C16_FrozenOnceCompleted(g) ==
    games[g].completedAt # NoTime
    => games'[g].calledNumbers = games[g].calledNumbers

C16_HistoryChangesOnlyWhileActive ==
    [][\A g \in GameIds :
         games[g] # NoGame =>
            /\ C16_CallOffActive(g)
            /\ C16_ChangeWhileActive(g)
            /\ C16_FrozenOnceCompleted(g)]_vars

(***************************************************************************)
(* SpecStore: a store of several sessions.  The handlers are the same      *)
(* atomic actions; a create takes the first id not in use, the clock       *)
(* stands still and each session takes at most MaxStoreCalls calls.        *)
(***************************************************************************)
GameOrder == <<"g1", "g2">>

\* The id the next created document gets.
NextGameId ==
    LET free == {k \in DOMAIN GameOrder : games[GameOrder[k]] = NoGame}
    IN  IF free = {} THEN {}
        ELSE {GameOrder[CHOOSE k \in free : \A m \in free : k <= m]}

StoreCreateRequests ==
    { [actor |-> "u1", opponentId |-> "u2",   gameType |-> "multiplayer"],
      [actor |-> "u2", opponentId |-> "u1",   gameType |-> "multiplayer"],
      [actor |-> "u1", opponentId |-> NoUser, gameType |-> "solo"] }

StoreCallInputs(g) ==
    IF games[g] = NoGame \/ Len(games[g].calledNumbers) >= MaxStoreCalls THEN {}
    ELSE LET history == games[g].calledNumbers
         IN  Fresh(history) \cup
             (IF history = << >> THEN {} ELSE {history[Len(history)]})

StoreNext ==
    \/ \E g \in NextGameId, r \in StoreCreateRequests, p \in Shuffles :
          CreateGame(g, r.actor, r.opponentId, r.gameType, p)
    \/ \E g \in GameIds, a \in Users : JoinGame(g, a)
    \/ \E g \in GameIds, a \in Users : \E n \in StoreCallInputs(g) : CallNumber(g, a, n)
    \/ \E g \in GameIds, a \in Users : DeclineGame(g, a)
    \/ \E g \in GameIds, a \in Users : CancelGame(g, a)
    \/ \E g \in GameIds, a \in Users, acc \in BOOLEAN : RespondToInvitation(g, a, acc)
    \/ \E g \in GameIds, a \in Users : \E n \in StoreCallInputs(g) : SocketCallNumber(g, a, n)

SpecStore == Init /\ [][StoreNext]_vars

SamePair(a, b) ==
    \/ a.creator = b.creator /\ a.opponent = b.opponent
    \/ a.creator = b.opponent /\ a.opponent = b.creator

(***************************************************************************)
(* C12: two different users never have more than one pending or active     *)
(* session between them, and a create for a pair that has such a session   *)
(* fails and creates nothing.                                              *)
(***************************************************************************)
C12_OnePerPair ==
    \A g, h \in Existing :
        (/\ g # h
         /\ TwoPlayer(games[g])
         /\ SamePair(games[g], games[h])
         /\ NonTerminal(games[g]))
        => ~NonTerminal(games[h])

C12_CreateStep(g) ==
    (/\ Handled({"create"}, g)
     /\ last'.arg \in Users
     /\ \E h \in Existing :
           /\ NonTerminal(games[h])
           /\ SamePair(games[h], [creator |-> last'.actor, opponent |-> last'.arg]))
    => (~Accepted /\ games' = games)

C12_OneOpenSessionPerPair ==
    /\ []C12_OnePerPair
    /\ [][\A g \in GameIds : C12_CreateStep(g)]_vars

(***************************************************************************)
(* Interleaved handlers: a handler reads the store (findOne / findById),   *)
(* is suspended at an await, and writes at its save()                      *)
(***************************************************************************)
\* The outcome of the checks of POST / against the store as read.
CreateChecks(actor, opponentId, gameType) ==
    IF gameType = "multiplayer" /\ opponentId = NoUser
    THEN "Opponent ID is required for multiplayer games"
    ELSE IF opponentId # NoUser /\ opponentId \notin Users
    THEN "Opponent not found"
    ELSE IF /\ opponentId # NoUser
            /\ \E h \in Existing :
                  /\ \/ games[h].creator = actor /\ games[h].opponent = opponentId
                     \/ games[h].creator = opponentId /\ games[h].opponent = actor
                  /\ games[h].status \in {"pending", "active"}
    THEN "There is already an active game with this opponent"
    ELSE "ok"

\* The outcome of a call-number handler on the document it read: its reply
\* and the document it will save.
CallRead(op, game, actor, number) ==
    IF game = NoGame
    THEN [res |-> "Game not found", doc |-> game]
    ELSE IF game.status # "active"
    THEN [res |-> "Game is not active", doc |-> game]
    ELSE IF ~isUserTurn(game, actor)
    THEN [res |-> "It is not your turn", doc |-> game]
    ELSE IF op = "call-number" /\ (below(number, MinNumber) \/ above(number, MaxNumber))
    THEN [res |-> "Invalid number. Must be between 1 and 25.", doc |-> game]
    ELSE LET called == callNumber(game, number, actor)
         IN
         IF ~called.ok
         THEN [res |-> "Number has already been called", doc |-> game]
         ELSE IF op = "socket-call-number"
         THEN [res |-> "ok", doc |-> called.game]
         ELSE LET doc == called.game
                  creatorLines ==
                      IF checkWinCondition(doc, doc.creatorBoard, doc.calledNumbers)
                      THEN WinLines ELSE 0
                  opponentLines ==
                      IF checkWinCondition(doc, doc.opponentBoard, doc.calledNumbers)
                      THEN WinLines ELSE 0
                  counted == [doc EXCEPT !.creatorCompletedLines = creatorLines,
                                         !.opponentCompletedLines = opponentLines]
                  winner == IF creatorLines >= WinLines THEN doc.creator
                            ELSE IF opponentLines >= WinLines THEN doc.opponent
                            ELSE NoUser
              IN  [res |-> "ok",
                   doc |-> IF winner # NoUser THEN endGame(counted, winner, now)
                           ELSE counted]

Suspend(h, op, actor, g, arg, base, doc) ==
    /\ inflight' = [inflight EXCEPT ![h] =
                        [op |-> op, actor |-> actor, game |-> g, arg |-> arg,
                         base |-> base, doc |-> doc]]
    /\ games' = games
    /\ rooms' = rooms
    /\ Silent
    /\ last' = Reply("read", actor, g, arg, "ok")

\* POST / up to its save(): the checks, on the store as it is now.
BeginCreate(h, g, actor, opponentId, gameType, perm) ==
    /\ inflight[h] = Idle
    /\ now' = now
    /\ LET res == CreateChecks(actor, opponentId, gameType)
       IN  IF res # "ok"
           THEN Reject("create", actor, g, opponentId, res)
           ELSE Suspend(h, "create", actor, g, opponentId, NoGame,
                        NewGame(actor, IF opponentId # NoUser THEN opponentId ELSE actor,
                                gameType, generateBingoBoard(perm)))

\* A call-number handler (REST or realtime) up to its save().
BeginCall(h, op, g, actor, number) ==
    /\ inflight[h] = Idle
    /\ now' = now
    /\ LET read == CallRead(op, games[g], actor, number)
       IN  IF read.res # "ok"
           THEN Reject(op, actor, g, number, read.res)
           ELSE Suspend(h, op, actor, g, number, games[g], read.doc)

\* What save() leaves in the store.  The handler changed its own copy of
\* the document it read; the store may since have been written by another
\* handler.  "paths": only the paths the handler changed are written,
\* a push as an append to the stored array.  "document": the handler's
\* copy replaces the stored document.
WriteModes == {"paths", "document"}

Written(mode, stored, base, doc) ==
    IF mode = "document" \/ stored = NoGame
    THEN doc
    ELSE [f \in DOMAIN stored |->
            IF doc[f] = base[f] THEN stored[f]
            ELSE IF f = "calledNumbers"
            THEN stored[f] \o SubSeq(doc[f], Len(base[f]) + 1, Len(doc[f]))
            ELSE doc[f]]

\* The save() of a suspended handler, and its reply.
Finish(h, g, doc, failure) ==
    LET r == inflight[h]
    IN  /\ now' = now
        /\ inflight' = [inflight EXCEPT ![h] = Idle]
        /\ rooms' = rooms
        /\ Silent
        /\ IF saveOk(g, doc)
           THEN /\ games' = [games EXCEPT ![g] = saved(g, doc)]
                /\ last' = Reply(r.op, r.actor, g, r.arg, "ok")
           ELSE /\ games' = games
                /\ last' = Reply(r.op, r.actor, g, r.arg, failure)

FinishCreate(h, g) ==
    /\ inflight[h].op = "create"
    /\ Finish(h, g, inflight[h].doc, "Internal server error")

FinishCall(h, mode) ==
    /\ inflight[h].op \in {"call-number", "socket-call-number"}
    /\ LET r == inflight[h]
       IN  Finish(h, r.game, Written(mode, games[r.game], r.base, r.doc),
                  IF r.op = "call-number" THEN "Internal server error"
                  ELSE "Failed to call number")

RaceCreateRequests ==
    { [actor |-> "u1", opponentId |-> "u2", gameType |-> "multiplayer"],
      [actor |-> "u2", opponentId |-> "u1", gameType |-> "multiplayer"] }

RaceNext ==
    \/ \E h \in Handlers, g \in NextGameId, r \in RaceCreateRequests, p \in Shuffles :
          BeginCreate(h, g, r.actor, r.opponentId, r.gameType, p)
    \/ \E h \in Handlers, g \in NextGameId : FinishCreate(h, g)
    \/ \E g \in GameIds, a \in Users : JoinGame(g, a)
    \/ \E h \in Handlers, op \in {"call-number", "socket-call-number"},
          g \in GameIds, a \in Users :
          \E n \in StoreCallInputs(g) : BeginCall(h, op, g, a, n)
    \/ \E h \in Handlers, mode \in WriteModes : FinishCall(h, mode)

SpecRace == Init /\ [][RaceNext]_vars

\* The suspended handlers together with the handlers that end a session.
EndNext ==
    \/ \E g \in PlayGameIds, p \in Shuffles :
          CreateGame(g, "u1", "u2", "multiplayer", p)
    \/ \E g \in PlayGameIds, a \in Users : JoinGame(g, a)
    \/ \E h \in Handlers, op \in CallOps, g \in PlayGameIds, a \in Users :
          \E n \in StoreCallInputs(g) : BeginCall(h, op, g, a, n)
    \/ \E h \in Handlers, mode \in WriteModes : FinishCall(h, mode)
    \/ \E g \in PlayGameIds, a \in Users : CancelGame(g, a)
    \/ \E g \in PlayGameIds, a \in Users : RespondToInvitation(g, a, FALSE)

SpecEnd == Init /\ [][EndNext]_vars

(***************************************************************************)
(* Play of one session through POST /:gameId/call-number alone             *)
(***************************************************************************)
\* The numbers the clients submit, in this order: five non-integers between
\* 1 and 25, the number 13 (on no board), the board without its main
\* diagonal, and the first number of the diagonal.
PlayOrder ==
    <<Half(1), Half(2), Half(3), Half(4), Half(5), 13,
      2, 3, 4, 5, 6, 8, 9, 10, 11, 12, 14, 15, 16, 17, 18, 20, 21, 22, 23, 24,
      1>>

\* The first number of PlayOrder not yet in the history.
PlayFresh(history) ==
    LET open == {k \in DOMAIN PlayOrder : ~includes(history, PlayOrder[k])}
    IN  IF open = {} THEN {}
        ELSE {PlayOrder[CHOOSE k \in open : \A m \in open : k <= m]}

\* The next fresh number, a repeat of the last number called, or a
\* non-integer out of range.
PlayInputs(g) ==
    IF games[g] = NoGame THEN {PlayOrder[1]}
    ELSE LET history == games[g].calledNumbers
         IN  PlayFresh(history) \cup
             (IF history = << >> THEN {Half(0), Half(25)}
              ELSE {history[Len(history)]})

PlayNext ==
    \/ \E g \in PlayGameIds, p \in Shuffles :
          CreateGame(g, "u1", "u2", "multiplayer", p)
    \/ \E g \in PlayGameIds, a \in Users : JoinGame(g, a)
    \/ \E g \in PlayGameIds, a \in Users : \E n \in PlayInputs(g) : CallNumber(g, a, n)

SpecPlay == Init /\ [][PlayNext]_vars

(***************************************************************************)
(* C13: two create-session requests for the same unordered pair of users,  *)
(* in either creator/opponent order, handled with their reads and saves    *)
(* interleaved, never both succeed: a create is never saved while the      *)
(* pair has a pending or active session, and no two open sessions of one   *)
(* pair exist.                                                             *)
(***************************************************************************)
C13_SaveStep(g) ==
    (/\ Handled({"create"}, g)
     /\ Accepted
     /\ last'.arg \in Users)
    => ~ \E h \in Existing :
            /\ NonTerminal(games[h])
            /\ SamePair(games[h], [creator |-> last'.actor, opponent |-> last'.arg])

C13_NoTwoOpen ==
    \A g, h \in Existing :
        (g # h /\ SamePair(games[g], games[h]))
        => ~ (NonTerminal(games[g]) /\ NonTerminal(games[h]))

C13_ConcurrentCreatesNotBothSaved ==
    /\ [][\A g \in GameIds : C13_SaveStep(g)]_vars
    /\ []C13_NoTwoOpen

(***************************************************************************)
(* C14: of two call-number requests for the same number in flight on one   *)
(* session, exactly one is accepted: the save of the second is refused     *)
(* and leaves the session as it was, and the number is in the history      *)
(* once.                                                                   *)
(***************************************************************************)
C14_SecondSave(g) ==
    \A h \in Handlers :
        (/\ inflight[h].op \in CallOps
         /\ inflight[h].game = g
         /\ inflight'[h] = Idle
         /\ includes(games[g].calledNumbers, inflight[h].arg))
        => (~Accepted /\ games' = games)

C14_OneOfTwoCallsAccepted ==
    /\ [][\A g \in GameIds : C14_SecondSave(g)]_vars
    /\ [](\A g \in Existing : NoRepeat(games[g].calledNumbers))

(***************************************************************************)
(* Room handlers: callNumber, checkWin and updateRoomSettings on a room    *)
(* found by its code, and the win patterns of checkWin                     *)
(***************************************************************************)
RoomMinNumber == 1
RoomMaxNumber == 75

\* game.calledNumbers.map(cn => cn.number)
Numbers(room) == [i \in DOMAIN room.calledNumbers |-> room.calledNumbers[i].number]

isPlayer(room, userId) == \E p \in room.players : p.user = userId
isHost(room, userId) == \E p \in room.players : p.user = userId /\ p.isHost

checkLineWin(board, calledNumbers) ==
    \/ \E i \in 1..5 : \A j \in 1..5 : includes(calledNumbers, board[i][j])
    \/ \E j \in 1..5 : \A i \in 1..5 : includes(calledNumbers, board[i][j])

checkFullWin(board, calledNumbers) ==
    \A i \in 1..5 : \A j \in 1..5 : includes(calledNumbers, board[i][j])

checkCornersWin(board, calledNumbers) ==
    \A cell \in {board[1][1], board[1][5], board[5][1], board[5][5]} :
        includes(calledNumbers, cell)

checkDiagonalWin(board, calledNumbers) ==
    \/ \A i \in 1..5 : includes(calledNumbers, board[i][i])
    \/ \A i \in 1..5 : includes(calledNumbers, board[i][6 - i])

\* checkWinCondition of the room handlers (the session model has a method
\* of the same name).
checkWinPattern(board, calledNumbers, winPattern) ==
    CASE winPattern = "line"     -> checkLineWin(board, calledNumbers)
      [] winPattern = "full"     -> checkFullWin(board, calledNumbers)
      [] winPattern = "corners"  -> checkCornersWin(board, calledNumbers)
      [] winPattern = "diagonal" -> checkDiagonalWin(board, calledNumbers)
      [] OTHER                   -> checkLineWin(board, calledNumbers)

findRoom(roomCode) == IF roomCode \in RoomCodes THEN rooms[roomCode] ELSE NoRoom

RoomReject(op, actor, c, arg, res) ==
    /\ rooms' = rooms
    /\ last' = Reply(op, actor, c, arg, res)

RoomSave(op, actor, c, arg, doc, res) ==
    /\ rooms' = [rooms EXCEPT ![c] = doc]
    /\ last' = Reply(op, actor, c, arg, res)

\* socket.on('callNumber')
RoomCallNumber(c, actor, number) ==
    /\ UNCHANGED <<games, now, inflight>>
    /\ Silent
    /\ LET op == "callNumber"
           game == findRoom(c)
       IN
       IF number < RoomMinNumber \/ number > RoomMaxNumber
       THEN RoomReject(op, actor, c, number, "Invalid number (must be 1-75)")
       ELSE IF game = NoRoom
       THEN RoomReject(op, actor, c, number, "Room not found")
       ELSE IF game.status # "active"
       THEN RoomReject(op, actor, c, number, "Game is not active")
       ELSE IF ~isPlayer(game, actor)
       THEN RoomReject(op, actor, c, number, "You are not in this game")
       ELSE IF \E i \in DOMAIN game.calledNumbers : game.calledNumbers[i].number = number
       THEN RoomReject(op, actor, c, number, "Number already called")
       ELSE RoomSave(op, actor, c, number,
                     [game EXCEPT !.calledNumbers =
                         Append(@, [number |-> number, calledBy |-> actor])],
                     "ok")

\* The boards a client sends with checkWin: the room's board, a board whose
\* cells are all the first number called, or something that is not an array.
BoardKinds == {"stored", "forged", "none"}

ClientBoard(kind, room) ==
    IF kind = "forged" /\ room # NoRoom /\ room.calledNumbers # << >>
    THEN [i \in 1..5 |-> [j \in 1..5 |-> room.calledNumbers[1].number]]
    ELSE generateBingoBoard(IdentityShuffle)

\* A checkWin whose evaluation drops the latest called number when it finds
\* no win.
CheckWinForgetting(c, actor, kind) ==
    /\ UNCHANGED <<games, now, inflight>>
    /\ Silent
    /\ LET op == "checkWin"
           game == findRoom(c)
           board == ClientBoard(kind, game)
       IN
       IF kind = "none"
       THEN RoomReject(op, actor, c, kind, "Invalid board data")
       ELSE IF game = NoRoom
       THEN RoomReject(op, actor, c, kind, "Room not found")
       ELSE IF game.status # "active"
       THEN RoomReject(op, actor, c, kind, "Game is not active")
       ELSE IF ~isPlayer(game, actor)
       THEN RoomReject(op, actor, c, kind, "You are not in this game")
       ELSE IF checkWinPattern(board, Numbers(game), game.gameSettings.winPattern)
       THEN RoomSave(op, actor, c, kind,
                     [game EXCEPT !.status = "completed",
                                  !.winner = actor,
                                  !.completedAt = now],
                     "ok")
       ELSE RoomSave(op, actor, c, kind,
                     [game EXCEPT !.calledNumbers =
                         SubSeq(@, 1, IF Len(@) = 0 THEN 0 ELSE Len(@) - 1)],
                     "No win yet, keep playing!")

\* socket.on('checkWin')
CheckWin(c, actor, kind) ==
    /\ UNCHANGED <<games, now, inflight>>
    /\ Silent
    /\ LET op == "checkWin"
           game == findRoom(c)
           board == ClientBoard(kind, game)
       IN
       IF kind = "none"
       THEN RoomReject(op, actor, c, kind, "Invalid board data")
       ELSE IF game = NoRoom
       THEN RoomReject(op, actor, c, kind, "Room not found")
       ELSE IF game.status # "active"
       THEN RoomReject(op, actor, c, kind, "Game is not active")
       ELSE IF ~isPlayer(game, actor)
       THEN RoomReject(op, actor, c, kind, "You are not in this game")
       ELSE IF checkWinPattern(board, Numbers(game), game.gameSettings.winPattern)
       THEN RoomSave(op, actor, c, kind,
                     [game EXCEPT !.status = "completed",
                                  !.winner = actor,
                                  !.completedAt = now],
                     "ok")
       ELSE RoomReject(op, actor, c, kind, "No win yet, keep playing!")

\* socket.on('updateRoomSettings') with settings { gameSettings: { winPattern } }
UpdateRoomSettings(c, actor, winPattern) ==
    /\ UNCHANGED <<games, now, inflight>>
    /\ Silent
    /\ LET op == "updateRoomSettings"
           game == findRoom(c)
       IN
       IF game = NoRoom
       THEN RoomReject(op, actor, c, winPattern, "Room not found")
       ELSE IF ~isHost(game, actor)
       THEN RoomReject(op, actor, c, winPattern, "Only the host can update room settings")
       ELSE RoomSave(op, actor, c, winPattern,
                     [game EXCEPT !.gameSettings = [@ EXCEPT !.winPattern = winPattern]],
                     "ok")

\* The numbers called in a room, in this order: the center row, then the
\* corners.
RoomCallOrder == <<11, 12, 14, 15, 1, 5, 21, 25>>
RoomOutOfRange == {0, 76}

RoomCallInputs(c) ==
    LET history == Numbers(rooms[c])
        open == {k \in DOMAIN RoomCallOrder : ~includes(history, RoomCallOrder[k])}
    IN  (IF open = {} THEN {}
         ELSE {RoomCallOrder[CHOOSE k \in open : \A m \in open : k <= m]}) \cup
        (IF history = << >> THEN RoomOutOfRange ELSE {history[Len(history)]})

\* Who calls: anyone among the first EarlyCalls calls of a room, the host
\* afterwards.
RoomCallers(c) ==
    IF Len(rooms[c].calledNumbers) < EarlyCalls THEN Users ELSE {"u1"}

RoomNext ==
    \/ \E c \in RoomCodes : \E a \in RoomCallers(c), n \in RoomCallInputs(c) :
          RoomCallNumber(c, a, n)
    \/ \E a \in Users : RoomCallNumber(UnknownRoom, a, RoomCallOrder[1])
    \/ \E c \in RoomCodes \cup {UnknownRoom}, a \in Users, kind \in BoardKinds :
          CheckWin(c, a, kind)
    \/ \E c \in RoomCodes \cup {UnknownRoom}, a \in Users, w \in WinPatterns :
          UpdateRoomSettings(c, a, w)

SpecRoom == Init /\ [][RoomNext]_vars

\* The win patterns with a FREE cell counted as satisfied.
PatternHolds(winPattern, board, calledNumbers) ==
    CASE winPattern = "full" ->
            \A i \in 1..5 : \A j \in 1..5 : marked(board[i][j], calledNumbers)
      [] winPattern = "corners" ->
            \A cell \in {board[1][1], board[1][5], board[5][1], board[5][5]} :
                marked(cell, calledNumbers)
      [] winPattern = "diagonal" ->
            \/ \A i \in 1..5 : marked(board[i][i], calledNumbers)
            \/ \A i \in 1..5 : marked(board[i][6 - i], calledNumbers)
      [] OTHER ->
            \/ \E i \in 1..5 : \A j \in 1..5 : marked(board[i][j], calledNumbers)
            \/ \E j \in 1..5 : \A i \in 1..5 : marked(board[i][j], calledNumbers)

(***************************************************************************)
(* C19: check-win completes a room only when the room's own stored board,  *)
(* against the room's called numbers, satisfies the room's win pattern;    *)
(* a board chosen by the client never makes its sender the winner.         *)
(***************************************************************************)
C19_WinOnlyOnStoredBoard ==
    [][\A c \in RoomCodes :
         (/\ Handled({"checkWin"}, c)
          /\ rooms[c].status = "active"
          /\ rooms'[c].status = "completed")
         => PatternHolds(rooms[c].gameSettings.winPattern,
                         rooms[c].bingoBoard, Numbers(rooms[c]))]_vars

(***************************************************************************)
(* C20: every win predicate counts a FREE cell as satisfied: the line      *)
(* count of the session model and the patterns line, full, corners and     *)
(* diagonal of check-win.  A board whose center row has its four numbers   *)
(* called wins under line; a board with one corner not called does not     *)
(* win under corners.                                                      *)
(***************************************************************************)
CenterRowCalled(board, calledNumbers) ==
    \A j \in {1, 2, 4, 5} : includes(calledNumbers, board[3][j])

CornersCalled(board, calledNumbers) ==
    {cell \in {board[1][1], board[1][5], board[5][1], board[5][5]} :
        includes(calledNumbers, cell)}

C20_FreeCellSatisfied ==
    \A c \in RoomCodes :
        LET board == rooms[c].bingoBoard
            called == Numbers(rooms[c])
        IN  /\ \A w \in WinPatterns :
                  checkWinPattern(board, called, w) <=> PatternHolds(w, board, called)
            /\ CenterRowCalled(board, called) =>
                  /\ completedLines(board, called) >= 1
                  /\ checkWinPattern(board, called, "line")
            /\ Cardinality(CornersCalled(board, called)) = 3 =>
                  ~checkWinPattern(board, called, "corners")

(***************************************************************************)
(* C28: after every accepted call-number the stored completed-line counts  *)
(* of the creator and of the opponent are the numbers of completed rows,   *)
(* columns and diagonals (FREE counted as satisfied) of their boards       *)
(* against the called numbers.                                             *)
(***************************************************************************)
C28_StoredLineCounts ==
    [][\A g \in GameIds :
         (Handled(CallOps, g) /\ Accepted /\ games[g] # NoGame)
         => (/\ games'[g].creatorCompletedLines =
                   completedLines(games'[g].creatorBoard, games'[g].calledNumbers)
             /\ games'[g].opponentCompletedLines =
                   completedLines(games'[g].opponentBoard, games'[g].calledNumbers))]_vars

(***************************************************************************)
(* Board generation: the shuffle of generateBingoBoard, with Math.random   *)
(* drawn from a bounded source                                             *)
(***************************************************************************)
\* Math.random() yields level / RandomLevels; the source repeats with period
\* RandomPeriod.
RandomLevels == 4
RandomPeriod == 3
RandomSources == [1..RandomPeriod -> 0..(RandomLevels - 1)]

swap(arr, i, j) == [arr EXCEPT ![i] = arr[j], ![j] = arr[i]]

\* for (i = length - 1; i > 0; i--) { j = floor(random * (i + 1)); swap }
\* with positions counted from 1: i runs from 24 down to 2.
RECURSIVE shuffleFrom(_, _, _)
shuffleFrom(arr, i, source) ==
    IF i < 2 THEN arr
    ELSE LET draw == source[((Len(arr) - i) % RandomPeriod) + 1]
             j == ((draw * i) \div RandomLevels) + 1
         IN  shuffleFrom(swap(arr, i, j), i - 1, source)

shuffle(source) == shuffleFrom([k \in 1..24 |-> k], 24, source)

BoardNext ==
    \/ \E g \in PlayGameIds, r \in StoreCreateRequests, source \in RandomSources :
          CreateGame(g, r.actor, r.opponentId, r.gameType, shuffle(source))
    \/ \E g \in PlayGameIds, a \in Users : CancelGame(g, a)

SpecBoard == Init /\ [][BoardNext]_vars

(***************************************************************************)
(* C30: every board of a created session is a 5x5 grid whose center cell   *)
(* (third row, third column) is its only FREE cell and whose 24 other      *)
(* cells hold pairwise distinct numbers of 1..25; the creator's and the    *)
(* opponent's boards of a session are the same board.                      *)
(***************************************************************************)
Cells == (1..5) \X (1..5)

WellFormedBoard(board) ==
    /\ DOMAIN board = 1..5
    /\ \A i \in 1..5 : DOMAIN board[i] = 1..5
    /\ \A c \in Cells : (board[c[1]][c[2]] = FREE) <=> (c = <<3, 3>>)
    /\ \A c \in Cells \ {<<3, 3>>} : InRange(board[c[1]][c[2]])
    /\ \A c, d \in Cells : c # d => board[c[1]][c[2]] # board[d[1]][d[2]]

C30_BoardsWellFormed ==
    \A g \in Existing :
        /\ WellFormedBoard(games[g].creatorBoard)
        /\ WellFormedBoard(games[g].opponentBoard)
        /\ games[g].creatorBoard = games[g].opponentBoard

\* A multiplayer session exists on a board that the shuffle has moved away
\* from the row-major order in its first and in its last row.
C30_Witness ==
    \E g \in Existing :
        /\ TwoPlayer(games[g])
        /\ games[g].creatorBoard[1][1] # 1
        /\ games[g].creatorBoard[5][5] # 25

(***************************************************************************)
(* The realtime gateway of the sessions: handshake, presence map           *)
(* connectedUsers, game rooms and the events each handler emits.  A        *)
(* handler's record in last has the connection as its actor.               *)
(***************************************************************************)
\* Users whose isActive flag is false.
InactiveUsers == {"u3"}

\* socket.handshake.auth.token: absent, not verifiable, or signed for userId.
NoToken == [kind |-> "none", userId |-> NoUser]
BadToken == [kind |-> "invalid", userId |-> NoUser]
TokenOf(userId) == [kind |-> "valid", userId |-> userId]

\* The credentials each client of the model presents.
ClientTokens(s) ==
    CASE s = "s1" -> {TokenOf("u1")}
      [] s = "s2" -> {TokenOf("u2")}
      [] OTHER    -> {NoToken, BadToken, TokenOf(Ghost), TokenOf("u3"), TokenOf("u2")}

Connected(s) == sockets[s].state = "connected"

GameRoom(g) == <<"game", g>>
UserRoom(u) == <<"user", u>>

\* The connections an event sent to a room reaches.
Members(room) == {s \in SocketIds : Connected(s) /\ room \in sockets[s].rooms}

Emit(event, to, data) == {[event |-> event, to |-> t, data |-> data] : t \in to}

\* connectedUsers.get(userId): the socket ids an event to that user reaches.
Registered(userId) ==
    IF userId \in Users /\ connectedUsers[userId] # NoSocket
    THEN {connectedUsers[userId]} ELSE {}

\* The outcome of the io.use middleware for a token.
authenticate(token) ==
    IF token.kind = "none" THEN "Authentication error"
    ELSE IF token.kind # "valid" THEN "Authentication error"
    ELSE IF token.userId \notin Users THEN "User not found"
    ELSE "ok"

\* A registration that keeps the entry an identity already has.
registerKeepingFirst(userId, s) ==
    IF connectedUsers[userId] # NoSocket THEN connectedUsers
    ELSE [connectedUsers EXCEPT ![userId] = s]

\* connectedUsers.set(userId, { socketId, user })
register(userId, s) == [connectedUsers EXCEPT ![userId] = s]

\* io.use and io.on('connection')
Connect(s, token) ==
    /\ sockets[s].state = "new"
    /\ UNCHANGED <<games, now, inflight, rooms>>
    /\ LET res == authenticate(token)
       IN  /\ last' = Reply("connect", s, NoGameId, token.userId, res)
           /\ IF res # "ok"
              THEN /\ sockets' = [sockets EXCEPT ![s].state = "refused"]
                   /\ connectedUsers' = connectedUsers
                   /\ emitted' = {}
              ELSE /\ sockets' = [sockets EXCEPT ![s] =
                                    [state |-> "connected", user |-> token.userId,
                                     rooms |-> {UserRoom(token.userId)},
                                     currentGameId |-> NoGameId]]
                   /\ connectedUsers' = register(token.userId, s)
                   /\ emitted' = Emit("user-connected",
                                      {t \in SocketIds \ {s} : Connected(t)},
                                      [userId |-> token.userId])

\* socket.on('disconnect')
Disconnect(s) ==
    /\ Connected(s)
    /\ UNCHANGED <<games, now, inflight, rooms>>
    /\ LET userId == sockets[s].user
           g == sockets[s].currentGameId
       IN  /\ last' = Reply("disconnect", s, g, userId, "ok")
           /\ connectedUsers' = [connectedUsers EXCEPT ![userId] = NoSocket]
           /\ sockets' = [sockets EXCEPT ![s].state = "closed", ![s].rooms = {}]
           /\ emitted' =
                Emit("user-disconnected", {t \in SocketIds \ {s} : Connected(t)},
                     [userId |-> userId])
                \cup (IF g # NoGameId
                      THEN Emit("player-left-game", Members(GameRoom(g)) \ {s},
                                [userId |-> userId])
                      ELSE {})

SocketError(op, s, g, arg, message) ==
    /\ UNCHANGED <<games, sockets, connectedUsers>>
    /\ last' = Reply(op, s, g, arg, message)
    /\ emitted' = Emit("error", {s}, [message |-> message])

\* A join-game that admits any connected user to the room.
SocketJoinGameUnchecked(s, g) ==
    /\ Connected(s)
    /\ UNCHANGED <<now, inflight, rooms>>
    /\ LET op == "join-game"
           userId == sockets[s].user
           game == games[g]
       IN  IF game = NoGame
           THEN SocketError(op, s, g, userId, "Game not found")
           ELSE /\ UNCHANGED <<games, connectedUsers>>
                /\ last' = Reply(op, s, g, userId, "ok")
                /\ sockets' = [sockets EXCEPT ![s].rooms = @ \cup {GameRoom(g)},
                                              ![s].currentGameId = g]
                /\ emitted' = Emit("game-joined", {s}, [game |-> g])
                              \cup Emit("player-joined-game", Members(GameRoom(g)) \ {s},
                                        [userId |-> userId])

\* socket.on('join-game')
SocketJoinGame(s, g) ==
    /\ Connected(s)
    /\ UNCHANGED <<now, inflight, rooms>>
    /\ LET op == "join-game"
           userId == sockets[s].user
           game == games[g]
       IN  IF game = NoGame
           THEN SocketError(op, s, g, userId, "Game not found")
           ELSE IF game.creator # userId /\ game.opponent # userId
           THEN SocketError(op, s, g, userId, "Access denied")
           ELSE /\ UNCHANGED <<games, connectedUsers>>
                /\ last' = Reply(op, s, g, userId, "ok")
                /\ sockets' = [sockets EXCEPT ![s].rooms = @ \cup {GameRoom(g)},
                                              ![s].currentGameId = g]
                /\ emitted' = Emit("game-joined", {s}, [game |-> g])
                              \cup Emit("player-joined-game", Members(GameRoom(g)) \ {s},
                                        [userId |-> userId])

\* socket.on('leave-game')
SocketLeaveGame(s, g) ==
    /\ Connected(s)
    /\ UNCHANGED <<games, now, inflight, rooms, connectedUsers>>
    /\ last' = Reply("leave-game", s, g, sockets[s].user, "ok")
    /\ sockets' = [sockets EXCEPT ![s].rooms = @ \ {GameRoom(g)},
                                  ![s].currentGameId = NoGameId]
    /\ emitted' = Emit("player-left-game", Members(GameRoom(g)) \ {s},
                       [userId |-> sockets[s].user])

\* An invitation sent to every connection of the opponent.
SendInvitationToAll(s, opponentId, g) ==
    /\ Connected(s)
    /\ UNCHANGED <<games, now, inflight, rooms, sockets, connectedUsers>>
    /\ last' = Reply("send-invitation", s, g, opponentId, "ok")
    /\ emitted' = Emit("game-invitation",
                       {t \in SocketIds : Connected(t) /\ sockets[t].user = opponentId},
                       [game |-> g, from |-> sockets[s].user])
                  \cup Emit("invitation-sent", {s}, [game |-> g])

\* socket.on('send-invitation')
SendInvitation(s, opponentId, g) ==
    /\ Connected(s)
    /\ UNCHANGED <<games, now, inflight, rooms, sockets, connectedUsers>>
    /\ last' = Reply("send-invitation", s, g, opponentId, "ok")
    /\ emitted' = Emit("game-invitation", Registered(opponentId),
                       [game |-> g, from |-> sockets[s].user])
                  \cup Emit("invitation-sent", {s}, [game |-> g])

\* emitToUser(userId, event, data), for the rest of the application
EmitToUser(userId, event) ==
    /\ UNCHANGED <<games, now, inflight, rooms, sockets, connectedUsers>>
    /\ last' = Reply("emitToUser", NoSocket, NoGameId, userId, "ok")
    /\ emitted' = Emit(event, Registered(userId), [userId |-> userId])

\* socket.on('game-message')
GameMessage(s, g) ==
    /\ Connected(s)
    /\ UNCHANGED <<games, now, inflight, rooms, sockets, connectedUsers>>
    /\ last' = Reply("game-message", s, g, sockets[s].user, "ok")
    /\ emitted' = IF sockets[s].currentGameId = g
                  THEN Emit("game-message", Members(GameRoom(g)),
                            [userId |-> sockets[s].user])
                  ELSE {}

\* socket.on('typing')
Typing(s, g) ==
    /\ Connected(s)
    /\ UNCHANGED <<games, now, inflight, rooms, sockets, connectedUsers>>
    /\ last' = Reply("typing", s, g, sockets[s].user, "ok")
    /\ emitted' = IF sockets[s].currentGameId = g
                  THEN Emit("typing", Members(GameRoom(g)) \ {s},
                            [userId |-> sockets[s].user])
                  ELSE {}

\* socket.on('respond-to-invitation')
SocketRespond(s, g, accepted) ==
    /\ Connected(s)
    /\ UNCHANGED <<now, inflight, rooms>>
    /\ LET op == "respond-to-invitation"
           userId == sockets[s].user
           game == games[g]
           started == [game EXCEPT !.status = "active",
                                   !.invitationAccepted = TRUE,
                                   !.startedAt = now]
           declined == [game EXCEPT !.status = "cancelled"]
       IN  IF game = NoGame
           THEN SocketError(op, s, g, accepted, "Game not found")
           ELSE IF game.opponent # userId
           THEN SocketError(op, s, g, accepted, "Not authorized")
           ELSE IF ~saveOk(g, IF accepted THEN started ELSE declined)
           THEN SocketError(op, s, g, accepted, "Failed to respond to invitation")
           ELSE IF accepted
           THEN /\ games' = [games EXCEPT ![g] = saved(g, started)]
                /\ connectedUsers' = connectedUsers
                /\ last' = Reply(op, s, g, accepted, "ok")
                /\ sockets' = [sockets EXCEPT ![s].rooms = @ \cup {GameRoom(g)},
                                              ![s].currentGameId = g]
                /\ emitted' = Emit("invitation-accepted", Registered(game.creator),
                                   [game |-> g, userId |-> userId])
                              \cup Emit("game-started", Members(GameRoom(g)) \cup {s},
                                        [game |-> g])
           ELSE /\ games' = [games EXCEPT ![g] = saved(g, declined)]
                /\ UNCHANGED <<sockets, connectedUsers>>
                /\ last' = Reply(op, s, g, accepted, "ok")
                /\ emitted' = Emit("invitation-declined", Registered(game.creator),
                                   [game |-> g, userId |-> userId])

\* socket.on('call-number')
SocketCall(s, g, number) ==
    /\ Connected(s)
    /\ UNCHANGED <<now, inflight, rooms>>
    /\ LET op == "socket-call-number"
           userId == sockets[s].user
           read == CallRead(op, games[g], userId, number)
       IN  IF read.res # "ok"
           THEN SocketError(op, s, g, number, read.res)
           ELSE IF ~saveOk(g, read.doc)
           THEN SocketError(op, s, g, number, "Failed to call number")
           ELSE /\ games' = [games EXCEPT ![g] = saved(g, read.doc)]
                /\ UNCHANGED <<sockets, connectedUsers>>
                /\ last' = Reply(op, s, g, number, "ok")
                /\ emitted' = Emit("number-called", Members(GameRoom(g)),
                                   [number |-> number, calledBy |-> userId,
                                    calledNumbers |-> games'[g].calledNumbers,
                                    currentTurn |-> games'[g].currentTurn])

\* The numbers sent to a session over a connection: the next fresh number
\* and, once a number is called, a repeat of it; MaxSocketCalls calls in all.
MaxSocketCalls == 1

SocketCallInputs(g) ==
    IF games[g] = NoGame THEN {CallOrder[1]}
    ELSE LET history == games[g].calledNumbers
         IN  (IF Len(history) >= MaxSocketCalls THEN {} ELSE Fresh(history)) \cup
             (IF history = << >> THEN {} ELSE {history[Len(history)]})

\* The identities invitations and notifications are addressed to.
Targets == {"u1", "u2", Ghost}

SocketNext ==
    \/ \E s \in SocketIds : \E token \in ClientTokens(s) : Connect(s, token)
    \/ \E s \in SocketIds : Disconnect(s)
    \/ \E g \in PlayGameIds, p \in Shuffles :
          CreateGame(g, "u1", "u2", "multiplayer", p)
    \/ \E s \in SocketIds, g \in PlayGameIds : SocketJoinGame(s, g)
    \/ \E s \in SocketIds, g \in GameIds : SocketLeaveGame(s, g)
    \/ \E s \in SocketIds, u \in Targets, g \in PlayGameIds : SendInvitation(s, u, g)
    \/ \E u \in Targets : EmitToUser(u, "notification")
    \/ \E s \in SocketIds, g \in PlayGameIds, acc \in BOOLEAN : SocketRespond(s, g, acc)
    \/ \E s \in SocketIds, g \in PlayGameIds : \E n \in SocketCallInputs(g) :
          SocketCall(s, g, n)
    \/ \E s \in SocketIds, g \in PlayGameIds : GameMessage(s, g)
    \/ \E s \in SocketIds, g \in PlayGameIds : Typing(s, g)

SpecSocket == Init /\ [][SocketNext]_vars

(***************************************************************************)
(* The connection handler with its suspension: io.on('connection') awaits  *)
(* the online-status update before it registers the presence entry and     *)
(* the listeners, and the client may disconnect in between                 *)
(***************************************************************************)
\* io.use, and io.on('connection') up to its await.
BeginConnect(s, token) ==
    /\ sockets[s].state = "new"
    /\ UNCHANGED <<games, now, inflight, rooms, connectedUsers>>
    /\ emitted' = {}
    /\ LET res == authenticate(token)
       IN  /\ last' = Reply("handshake", s, NoGameId, token.userId, res)
           /\ sockets' = [sockets EXCEPT
                            ![s].state = IF res = "ok" THEN "connecting" ELSE "refused",
                            ![s].user = IF res = "ok" THEN token.userId ELSE NoUser]

\* The client goes away while the handler is suspended: no 'disconnect'
\* listener is registered yet, so no handler runs.
EarlyDisconnect(s) ==
    /\ sockets[s].state = "connecting"
    /\ UNCHANGED <<games, now, inflight, rooms, connectedUsers>>
    /\ emitted' = {}
    /\ last' = Reply("disconnect", s, NoGameId, sockets[s].user, "unhandled")
    /\ sockets' = [sockets EXCEPT ![s].state = "dropped"]

\* io.on('connection') after its await: the entry, the personal room, the
\* announcement and the listeners.
FinishConnect(s) ==
    /\ sockets[s].state \in {"connecting", "dropped"}
    /\ UNCHANGED <<games, now, inflight, rooms>>
    /\ LET userId == sockets[s].user
           open == sockets[s].state = "connecting"
       IN  /\ last' = Reply("connect", s, NoGameId, userId, "ok")
           /\ connectedUsers' = register(userId, s)
           /\ sockets' = [sockets EXCEPT
                            ![s].state = IF open THEN "connected" ELSE "closed",
                            ![s].rooms = IF open THEN {UserRoom(userId)} ELSE {}]
           /\ emitted' = Emit("user-connected",
                              {t \in SocketIds \ {s} : Connected(t)},
                              [userId |-> userId])

HandshakeTokens(s) ==
    CASE s = "s1" -> {TokenOf("u1")}
      [] s = "s2" -> {TokenOf("u2")}
      [] OTHER    -> {NoToken, TokenOf("u3"), TokenOf("u2")}

HandshakeNext ==
    \/ \E s \in SocketIds : \E token \in HandshakeTokens(s) : BeginConnect(s, token)
    \/ \E s \in SocketIds : EarlyDisconnect(s)
    \/ \E s \in SocketIds : FinishConnect(s)
    \/ \E s \in SocketIds : Disconnect(s)
    \/ \E s \in SocketIds, u \in Targets, g \in PlayGameIds : SendInvitation(s, u, g)
    \/ \E u \in Targets : EmitToUser(u, "notification")

SpecHandshake == Init /\ [][HandshakeNext]_vars

(***************************************************************************)
(* The realtime gateway of the rooms: handshake, socket rooms named by the *)
(* room code as the client wrote it, ready / start, callNumber and         *)
(* sendMessage with the events they emit                                   *)
(***************************************************************************)
\* The room codes clients write; the room is looked up by the upper case.
RawCodes == {"R1", "r1", UnknownRoom}

toUpperCase(code) == IF code = "r1" THEN "R1" ELSE code

CodeRoom(code) == <<"room", code>>

\* game.setPlayerReady(userId, isReady)
setPlayerReady(room, userId, isReady) ==
    [room EXCEPT !.players =
        {IF p.user = userId THEN [p EXCEPT !.isReady = isReady] ELSE p : p \in @}]

\* game.allPlayersReady() that looks at the host only.
allPlayersReadyHostOnly(room) == \A p \in room.players : p.isHost => p.isReady

\* game.allPlayersReady()
allPlayersReady(room) == \A p \in room.players : p.isReady

\* game.startGame()
startGame(room) == [room EXCEPT !.status = "active"]

\* io.use and io.on('connection') of the room gateway
LobbyConnect(s, token) ==
    /\ sockets[s].state = "new"
    /\ UNCHANGED <<games, now, inflight, rooms, connectedUsers>>
    /\ LET res == authenticate(token)
       IN  /\ last' = Reply("connect", s, NoGameId, token.userId, res)
           /\ emitted' = {}
           /\ IF res # "ok"
              THEN sockets' = [sockets EXCEPT ![s].state = "refused"]
              ELSE sockets' = [sockets EXCEPT ![s] =
                                  [state |-> "connected", user |-> token.userId,
                                   rooms |-> {}, currentGameId |-> NoGameId]]

LobbyError(op, s, code, arg, message) ==
    /\ UNCHANGED <<rooms, sockets>>
    /\ last' = Reply(op, s, code, arg, message)
    /\ emitted' = Emit("error", {s}, [message |-> message])

\* socket.on('joinRooms')
JoinRooms(s) ==
    /\ Connected(s)
    /\ UNCHANGED <<games, now, inflight, rooms, connectedUsers>>
    /\ last' = Reply("joinRooms", s, NoGameId, sockets[s].user, "ok")
    /\ emitted' = {}
    /\ sockets' = [sockets EXCEPT ![s].rooms = @ \cup
                      {CodeRoom(c) : c \in {d \in RoomCodes :
                          /\ isPlayer(rooms[d], sockets[s].user)
                          /\ rooms[d].status \in {"waiting", "starting", "active"}}}]

\* socket.on('joinRoom')
JoinRoom(s, code) ==
    /\ Connected(s)
    /\ UNCHANGED <<games, now, inflight, connectedUsers>>
    /\ LET op == "joinRoom"
           userId == sockets[s].user
           game == findRoom(toUpperCase(code))
       IN  IF game = NoRoom
           THEN LobbyError(op, s, code, userId, "Room not found")
           ELSE IF ~isPlayer(game, userId)
           THEN LobbyError(op, s, code, userId, "You are not in this room")
           ELSE /\ rooms' = rooms
                /\ last' = Reply(op, s, code, userId, "ok")
                /\ sockets' = [sockets EXCEPT ![s].rooms = @ \cup {CodeRoom(code)}]
                /\ emitted' = Emit("playerJoinedRoom", Members(CodeRoom(code)) \ {s},
                                   [userId |-> userId])
                              \cup Emit("roomJoined", {s}, [roomCode |-> code])

\* socket.on('leaveRoom')
LeaveRoom(s, code) ==
    /\ Connected(s)
    /\ UNCHANGED <<games, now, inflight, rooms, connectedUsers>>
    /\ last' = Reply("leaveRoom", s, code, sockets[s].user, "ok")
    /\ sockets' = [sockets EXCEPT ![s].rooms = @ \ {CodeRoom(code)}]
    /\ emitted' = Emit("playerLeftRoom", Members(CodeRoom(code)) \ {s},
                       [userId |-> sockets[s].user])

\* socket.on('setReady')
SetReady(s, code, isReady) ==
    /\ Connected(s)
    /\ UNCHANGED <<games, now, inflight, connectedUsers>>
    /\ LET op == "setReady"
           userId == sockets[s].user
           c == toUpperCase(code)
           game == findRoom(c)
       IN  IF game = NoRoom
           THEN LobbyError(op, s, code, isReady, "Room not found")
           ELSE IF ~isPlayer(game, userId)
           THEN LobbyError(op, s, code, isReady, "You are not in this room")
           ELSE /\ rooms' = [rooms EXCEPT ![c] = setPlayerReady(game, userId, isReady)]
                /\ sockets' = sockets
                /\ last' = Reply(op, s, code, isReady, "ok")
                /\ emitted' = Emit("playerReadyStatusChanged", Members(CodeRoom(code)),
                                   [userId |-> userId, isReady |-> isReady,
                                    allPlayersReady |-> allPlayersReady(rooms'[c])])

\* socket.on('startGame')
StartGame(s, code) ==
    /\ Connected(s)
    /\ UNCHANGED <<games, now, inflight, connectedUsers>>
    /\ LET op == "startGame"
           userId == sockets[s].user
           c == toUpperCase(code)
           game == findRoom(c)
       IN  IF game = NoRoom
           THEN LobbyError(op, s, code, userId, "Room not found")
           ELSE IF ~isHost(game, userId)
           THEN LobbyError(op, s, code, userId, "Only the host can start the game")
           ELSE IF ~allPlayersReady(game)
           THEN LobbyError(op, s, code, userId, "Not all players are ready")
           ELSE /\ rooms' = [rooms EXCEPT ![c] = startGame(game)]
                /\ sockets' = sockets
                /\ last' = Reply(op, s, code, userId, "ok")
                /\ emitted' = Emit("gameStarted", Members(CodeRoom(code)),
                                   [roomCode |-> code, bingoBoard |-> game.bingoBoard])

\* socket.on('callNumber') with its numberCalled event
LobbyCallNumber(s, code, number) ==
    /\ Connected(s)
    /\ UNCHANGED <<games, now, inflight, connectedUsers>>
    /\ LET op == "callNumber"
           userId == sockets[s].user
           c == toUpperCase(code)
           game == findRoom(c)
       IN  IF number < RoomMinNumber \/ number > RoomMaxNumber
           THEN LobbyError(op, s, code, number, "Invalid number (must be 1-75)")
           ELSE IF game = NoRoom
           THEN LobbyError(op, s, code, number, "Room not found")
           ELSE IF game.status # "active"
           THEN LobbyError(op, s, code, number, "Game is not active")
           ELSE IF ~isPlayer(game, userId)
           THEN LobbyError(op, s, code, number, "You are not in this game")
           ELSE IF \E i \in DOMAIN game.calledNumbers : game.calledNumbers[i].number = number
           THEN LobbyError(op, s, code, number, "Number already called")
           ELSE /\ rooms' = [rooms EXCEPT ![c].calledNumbers =
                                Append(@, [number |-> number, calledBy |-> userId])]
                /\ sockets' = sockets
                /\ last' = Reply(op, s, code, number, "ok")
                /\ emitted' = Emit("numberCalled", Members(CodeRoom(code)),
                                   [number |-> number, calledBy |-> userId,
                                    totalCalled |-> Len(rooms'[c].calledNumbers)])

\* message.trim() of the two texts clients send, "hello" and a blank.
trim(message) == IF message = " " THEN "" ELSE message

\* socket.on('sendMessage')
SendMessage(s, code, message) ==
    /\ Connected(s)
    /\ UNCHANGED <<games, now, inflight, connectedUsers>>
    /\ LET op == "sendMessage"
           userId == sockets[s].user
           game == findRoom(toUpperCase(code))
       IN  IF trim(message) = ""
           THEN /\ UNCHANGED <<rooms, sockets>>
                /\ last' = Reply(op, s, code, message, "ignored")
                /\ emitted' = {}
           ELSE IF game = NoRoom
           THEN LobbyError(op, s, code, message, "Room not found")
           ELSE IF ~isPlayer(game, userId)
           THEN LobbyError(op, s, code, message, "You are not in this room")
           ELSE /\ UNCHANGED <<rooms, sockets>>
                /\ last' = Reply(op, s, code, message, "ok")
                /\ emitted' = Emit("newMessage", Members(CodeRoom(code)),
                                   [userId |-> userId, message |-> trim(message)])

\* The numbers sent to a room over a connection.
LobbyCallInputs(c) ==
    LET history == Numbers(rooms[c])
    IN  (IF Len(history) >= MaxSocketCalls THEN {} ELSE {RoomCallOrder[Len(history) + 1]})
        \cup (IF history = << >> THEN RoomOutOfRange ELSE {history[Len(history)]})

LobbyInit ==
    /\ games = [g \in GameIds |-> NoGame]
    /\ now = 0
    /\ last = Reply("none", NoUser, "g1", NoUser, "ok")
    /\ inflight = [h \in Handlers |-> Idle]
    /\ rooms = [c \in RoomCodes |-> WaitingRoom]
    /\ sockets = [s \in SocketIds |-> NewSocket]
    /\ connectedUsers = [u \in Users |-> NoSocket]
    /\ emitted = {}

\* The credentials of the clients of the rooms: the host, the other player,
\* and a client with no token or with the token of a user outside the room.
LobbyTokens(s) ==
    CASE s = "s1" -> {TokenOf("u1")}
      [] s = "s2" -> {TokenOf("u2")}
      [] OTHER    -> {NoToken, TokenOf("u3")}

\* Ready and start requests are sent while the room is waiting; a code
\* of no room is sent with joinRoom and startGame.
LobbyCodes == {"R1", "r1"}

LobbyNext ==
    \/ \E s \in SocketIds : \E token \in LobbyTokens(s) : LobbyConnect(s, token)
    \/ \E s \in SocketIds : JoinRooms(s)
    \/ \E s \in SocketIds, code \in RawCodes : JoinRoom(s, code)
    \/ \E s \in SocketIds, code \in LobbyCodes : LeaveRoom(s, code)
    \/ \E s \in SocketIds, code \in LobbyCodes, isReady \in BOOLEAN :
          /\ rooms[toUpperCase(code)].status = "waiting"
          /\ SetReady(s, code, isReady)
    \/ \E s \in SocketIds, code \in RawCodes :
          /\ findRoom(toUpperCase(code)) # NoRoom => findRoom(toUpperCase(code)).status = "waiting"
          /\ StartGame(s, code)
    \/ \E s \in SocketIds, code \in LobbyCodes :
          \E n \in LobbyCallInputs(toUpperCase(code)) : LobbyCallNumber(s, code, n)
    \/ \E s \in SocketIds, code \in LobbyCodes : SendMessage(s, code, "hello")
    \/ \E s \in SocketIds : SendMessage(s, "R1", " ")

SpecLobby == LobbyInit /\ [][LobbyNext]_vars

(***************************************************************************)
(* Vocabulary of the gateway properties                                    *)
(***************************************************************************)
\* The connections that are delivered an event of one of the kinds.
Recipients(events, kinds) == {e.to : e \in {d \in events : d.event \in kinds}}

\* The step is the handling of a message of kind op sent over connection s.
SocketStep(ops, s) == last'.op \in ops /\ last'.actor = s /\ Connected(s)

(***************************************************************************)
(* C21: a connection is admitted (it is connected, has a presence entry    *)
(* or is in a room) only if its token was present and verified and names   *)
(* an existing user who is active.                                         *)
(***************************************************************************)
C21_OnlyActiveUsersAdmitted ==
    \A s \in SocketIds :
        (\/ Connected(s)
         \/ sockets[s].rooms # {}
         \/ \E u \in Users : connectedUsers[u] = s)
        => (sockets[s].user \in Users /\ sockets[s].user \notin InactiveUsers)

(***************************************************************************)
(* C22: the presence map has at most one entry per identity, and the       *)
(* registration of a new connection of an identity makes the identity's    *)
(* entry refer to the new connection, leaving the other entries alone.     *)
(***************************************************************************)
C22_ConnectReplacesEntry ==
    [][\A s \in SocketIds :
         (/\ last'.op = "connect"
          /\ sockets[s].state = "new"
          /\ sockets'[s].state = "connected")
         => (/\ connectedUsers'[sockets'[s].user] = s
             /\ \A u \in Users \ {sockets'[s].user} :
                   connectedUsers'[u] = connectedUsers[u])]_vars

\* u2 has just connected a second time: both connections are open and the
\* entry is the new one.
C22_Witness ==
    /\ last.op = "connect" /\ last.actor = "s3" /\ last.res = "ok"
    /\ Connected("s2") /\ Connected("s3")
    /\ sockets["s2"].user = "u2" /\ sockets["s3"].user = "u2"
    /\ connectedUsers["u2"] = "s3"

(***************************************************************************)
(* C23: on the disconnect of a connection the presence entry of its        *)
(* identity is removed, and the other members of every game room the       *)
(* connection was in get a player-left-game event.                         *)
(***************************************************************************)
C23_DisconnectNotifiesRooms ==
    [][\A s \in SocketIds :
         (/\ last'.op = "disconnect" /\ last'.actor = s
          /\ Connected(s) /\ ~Connected(s)')
         => (/\ connectedUsers'[sockets[s].user] = NoSocket
             /\ \A g \in GameIds :
                   GameRoom(g) \in sockets[s].rooms
                   => Members(GameRoom(g)) \ {s}
                        \subseteq Recipients(emitted', {"player-left-game"}))]_vars

(***************************************************************************)
(* C24: a notification addressed to an identity (game-invitation,          *)
(* emitToUser, invitation-accepted, invitation-declined) is delivered to   *)
(* the connection registered for that identity and to no other one; with   *)
(* no entry for the identity it is delivered to nobody.  Sending an        *)
(* invitation or a notification changes no session, connection or entry.   *)
(***************************************************************************)
PointToPoint == {"game-invitation", "notification",
                 "invitation-accepted", "invitation-declined"}

C24_Step ==
    /\ last'.op \in {"send-invitation", "emitToUser"}
       => (/\ Recipients(emitted', PointToPoint) = Registered(last'.arg)
           /\ UNCHANGED <<games, sockets, connectedUsers>>)
    /\ (last'.op = "respond-to-invitation" /\ Accepted /\ last'.game \in GameIds)
       => Recipients(emitted', PointToPoint) = Registered(games[last'.game].creator)
    /\ last'.op \notin {"send-invitation", "emitToUser", "respond-to-invitation"}
       => Recipients(emitted', PointToPoint) = {}

C24_NotificationsReachRegisteredOnly == [][C24_Step]_vars

\* An invitation for u2 has just been sent while u2 has two open
\* connections: only the registered one got it.
C24_Witness ==
    /\ last.op = "send-invitation" /\ last.arg = "u2"
    /\ Connected("s2") /\ Connected("s3")
    /\ sockets["s2"].user = "u2" /\ sockets["s3"].user = "u2"
    /\ Recipients(emitted, {"game-invitation"}) = {connectedUsers["u2"]}

(***************************************************************************)
(* C25: an accepted call-number over a connection is followed, once the    *)
(* session is saved, by one number-called event to the session's room      *)
(* with the history and the turn as saved; a rejected one gives an error   *)
(* event to the calling connection and nothing else.                       *)
(***************************************************************************)
\* The call-number of the sessions.
C25_SessionCall(s) ==
    (SocketStep({"socket-call-number"}, s) /\ last'.game \in GameIds)
    => IF Accepted
       THEN emitted' = Emit("number-called", Members(GameRoom(last'.game)),
                            [number |-> last'.arg, calledBy |-> sockets[s].user,
                             calledNumbers |-> games'[last'.game].calledNumbers,
                             currentTurn |-> games'[last'.game].currentTurn])
       ELSE /\ emitted' = Emit("error", {s}, [message |-> last'.res])
            /\ games' = games

\* The callNumber of the rooms: the session's room is the one named by the
\* room's code.
C25_RoomCall(s) ==
    SocketStep({"callNumber"}, s)
    => IF Accepted
       THEN /\ Recipients(emitted', {"numberCalled"})
                 = Members(CodeRoom(toUpperCase(last'.game)))
            /\ \A e \in emitted' :
                  /\ e.event = "numberCalled"
                  /\ e.data.number = last'.arg
                  /\ e.data.totalCalled
                       = Len(rooms'[toUpperCase(last'.game)].calledNumbers)
       ELSE /\ emitted' = Emit("error", {s}, [message |-> last'.res])
            /\ rooms' = rooms

C25_AcceptedCallsAreBroadcast ==
    [][\A s \in SocketIds : C25_SessionCall(s) /\ C25_RoomCall(s)]_vars

(***************************************************************************)
(* C26: a chat or typing event is relayed to a room only when the sending  *)
(* connection is in that room at that moment; relaying changes no session  *)
(* and no room.                                                            *)
(***************************************************************************)
ChatEvents == {"game-message", "typing", "newMessage"}

C26_Step(s) ==
    /\ (SocketStep({"game-message", "typing"}, s) /\ emitted' # {})
       => GameRoom(last'.game) \in sockets[s].rooms
    /\ (SocketStep({"sendMessage"}, s) /\ Recipients(emitted', ChatEvents) # {})
       => \E code \in RawCodes :
             /\ toUpperCase(code) = toUpperCase(last'.game)
             /\ CodeRoom(code) \in sockets[s].rooms
    /\ SocketStep({"game-message", "typing", "sendMessage"}, s)
       => UNCHANGED <<games, rooms, sockets, connectedUsers>>

C26_ChatOnlyFromMembers == [][\A s \in SocketIds : C26_Step(s)]_vars

(***************************************************************************)
(* C27: a room starts, and gameStarted is sent, only on a start request    *)
(* of the room's host while every player is ready; any other start         *)
(* request gives an error to the requester alone and starts nothing.       *)
(***************************************************************************)
MayStart(s, c) ==
    /\ c \in RoomCodes
    /\ \E p \in rooms[c].players : p.user = sockets[s].user /\ p.isHost
    /\ \A p \in rooms[c].players : p.isReady

C27_Step ==
    /\ \A c \in RoomCodes :
          (rooms[c].status # "active" /\ rooms'[c].status = "active")
          => (/\ last'.op = "startGame" /\ toUpperCase(last'.game) = c
              /\ MayStart(last'.actor, c))
    /\ Recipients(emitted', {"gameStarted"}) # {}
          => (last'.op = "startGame" /\ MayStart(last'.actor, toUpperCase(last'.game)))
    /\ \A s \in SocketIds :
          (SocketStep({"startGame"}, s) /\ ~MayStart(s, toUpperCase(last'.game)))
          => (/\ ~Accepted
              /\ rooms' = rooms
              /\ emitted' = Emit("error", {s}, [message |-> last'.res]))

C27_StartOnlyByHostWhenAllReady == [][C27_Step]_vars

\* The host has just started the room with both players ready, and both
\* players' connections got gameStarted.
C27_Witness ==
    /\ last.op = "startGame" /\ last.res = "ok"
    /\ rooms["R1"].status = "active"
    /\ \A p \in rooms["R1"].players : p.isReady
    /\ {"s1", "s2"} \subseteq Recipients(emitted, {"gameStarted"})

(***************************************************************************)
(* C29: win evaluation is a function of the board and the called numbers:  *)
(* a check-win repeated with no call in between gives the same answer, an  *)
(* evaluation that finds no win changes nothing, and no evaluation changes *)
(* the board or the called numbers.                                        *)
(***************************************************************************)
C29_Step(c) ==
    Handled({"checkWin"}, c)
    => (/\ rooms'[c].bingoBoard = rooms[c].bingoBoard
        /\ rooms'[c].calledNumbers = rooms[c].calledNumbers
        /\ ~Accepted => rooms' = rooms
        /\ (/\ last.op = "checkWin" /\ last.game = c
            /\ last.actor = last'.actor /\ last.arg = last'.arg
            /\ last.res # "ok")
           => last'.res = last.res)

C31_Parity(game) ==
    LET n == Len(game.calledNumbers)
    IN  /\ (game.currentTurn = "creator") <=> (n % 2 = 0)
        /\ n = 0 => game.lastCalledNumber = NoNumber
        /\ n > 0 => /\ game.lastCalledNumber = game.calledNumbers[n]
                    /\ game.lastCalledBy =
                          (IF n % 2 = 1 THEN game.creator ELSE game.opponent)

C31_TurnFollowsHistoryLength ==
    \A g \in Existing : TwoPlayer(games[g]) => C31_Parity(games[g])

(***************************************************************************)
(* C32: every identity that has an open admitted connection has a presence *)
(* entry, also after an older connection of the identity has disconnected. *)
(***************************************************************************)
C32_LiveIdentityIsRegistered ==
    \A s \in SocketIds :
        Connected(s) => connectedUsers[sockets[s].user] # NoSocket

(***************************************************************************)
(* C33: the presence map never holds an entry that refers to a connection  *)
(* that has disconnected, also when the client disconnected while the      *)
(* connection handler was suspended before registering the entry.          *)
(***************************************************************************)
C33_NoEntryForClosedConnection ==
    \A u \in Users :
        connectedUsers[u] # NoSocket => Connected(connectedUsers[u])

(***************************************************************************)
(* C34: an open connection is a member of the room of session g, or has    *)
(* currentGameId = g, only if its user is the creator or the opponent of   *)
(* g; and an open connection with currentGameId = g is a member of the     *)
(* room of g.                                                              *)
(***************************************************************************)
C34_Participant(s, g) ==
    /\ g \in Existing
    /\ sockets[s].user \in {games[g].creator, games[g].opponent}

C34_MembershipImpliesParticipation ==
    \A s \in SocketIds : Connected(s) =>
        /\ \A g \in GameIds :
              (GameRoom(g) \in sockets[s].rooms \/ sockets[s].currentGameId = g)
              => C34_Participant(s, g)
        /\ sockets[s].currentGameId # NoGameId
              => GameRoom(sockets[s].currentGameId) \in sockets[s].rooms

\* The creator's connection is in the room of g1 with g1 as its current
\* game, and the connection of a user who is not in g1 has just been
\* refused.
C34_Witness ==
    /\ last.op = "join-game" /\ last.res = "Access denied" /\ last.game = "g1"
    /\ Connected(last.actor) /\ GameRoom("g1") \notin sockets[last.actor].rooms
    /\ \E s \in SocketIds :
          /\ Connected(s) /\ sockets[s].user = games["g1"].creator
          /\ GameRoom("g1") \in sockets[s].rooms
          /\ sockets[s].currentGameId = "g1"

(***************************************************************************)
(* C35: no step appends a number to the stored history of a session whose  *)
(* stored status is cancelled or completed, also when the call-number      *)
(* handler read the session while it was active and saves after the        *)
(* session was ended.                                                      *)
(***************************************************************************)
C35_Step(g) ==
    (/\ g \in Existing
     /\ games[g].status \in {"cancelled", "completed"})
    => games'[g].calledNumbers = games[g].calledNumbers

C35_NoAppendAfterEnd == [][\A g \in GameIds : C35_Step(g)]_vars

(***************************************************************************)
(* C36: with calls made through POST /:gameId/call-number alone, the       *)
(* history of a session never holds more than 25 numbers, and a session    *)
(* whose board numbers have all been called is not active any more.        *)
(***************************************************************************)
BoardNumbers(board) == {board[i][j] : i, j \in 1..5} \ {FREE}

C36_PlayTerminates ==
    \A g \in Existing :
        /\ Len(games[g].calledNumbers) <= MaxNumber
        /\ (\A n \in BoardNumbers(games[g].creatorBoard) :
               includes(games[g].calledNumbers, n))
           => games[g].status # "active"

====
